---- MODULE Spec2Model ----
(***************************************************************************)
(* READNING: emotion-aware segmentation and concurrent generation          *)
(* pipeline.  The module models                                            *)
(*   - the two bounded-concurrency batch operations (phase detection over  *)
(*     windows, music generation over chunks),                             *)
(*   - the persistence of a page's chunks and the entry points that        *)
(*     decide whether a unit is generated again,                           *)
(*   - the chunk assembler that cuts a window at the detected phases,      *)
(*   - the pure steps: position reconciliation, page mapping, splitting.   *)
(* Each part has its own specification over the shared variables; the      *)
(* variables of the other parts stay at their idle values.                 *)
(***************************************************************************)
EXTENDS Integers, Sequences, FiniteSets, TLC

(***************************************************************************)
(* Program constants (src/config.py).                                      *)
(***************************************************************************)
MAX_CONCURRENT_EMOTION_ANALYSIS == 3
MAX_CONCURRENT_MUSIC_GENERATION == 1
GEN_DURATION == 15
MIN_CHUNK_SIZE == 50
MAX_CHUNK_SIZE == 8000
MAX_SEGMENT_SIZE == 6000
OVERLAP_SIZE == 250
CHUNKS_PER_PAGE == 4
SIGNIFICANCE_THRESHOLD == 3
MAX_SIGNIFICANCE == 5
MIN_GAP == 300
MAX_POINTS == 20
\* Attempts of one analysis: range(3) (analyze_emotions_with_gpt.py, line
\* 38) and retry_attempts = 3 (emotion_analysis_service.py, line 62).
RETRY_ATTEMPTS == 3
\* The gate of analyze_all_chunks_emotion_async: the module's own
\* MAX_CONCURRENT_EMOTION_ANALYSIS (src/services/async_emotion_analysis.py,
\* line 15).
ASYNC_MAX_CONCURRENT_EMOTION_ANALYSIS == 8
\* max_size and overlap the langgraph workflow passes to the splitter
\* (src/services/langgraph_workflow.py, lines 85-86).
LANGGRAPH_MAX_SIZE == 5000
LANGGRAPH_OVERLAP == 300

(***************************************************************************)
(* Bounds of the model.                                                    *)
(***************************************************************************)
MaxItems == 4
MaxRows == 2
MaxSegs == 3
MaxWindows == 2
MaxText == 3
MaxAnchor == 2
MaxPhases == 2
MaxChunks == 10
MaxPerPage == 5
MaxLen == 12
MaxWindowSize == 10
MaxOverlap == 11
MaxRunWindows == 2
MaxOffset == 1
MaxCutPhases == 2
MaxWindowChunks == 3

VARIABLES
    batch,      \* which batch operation runs
    items,      \* number of work items handed to the batch
    outcome,    \* outcome[i]: what the item's work runs into (environment)
    tpc,        \* tpc[i]: position of task i
    semaphore,  \* value of the asyncio.Semaphore of the batch
    results,    \* results[i]: what task i returned or raised (gather's slot i)
    completed,  \* items in the order their tasks finished
    called,     \* items whose external capability call was started
    bpc,        \* position of the batch coroutine
    returned,   \* the list the batch returns
    db_chunks,    \* committed rows of table chunks, per (book_id, page) unit
    db_chapters,  \* units that have a committed row in table chapters
    db_duration,  \* committed chapters.total_duration, per unit
    generated,    \* units some finished run generated and persisted
    rpc,          \* position of the current run of run_workflow
    run,          \* the current run: its unit, its artifacts, its history
    spc,          \* position of save_chapter_chunks
    tx,           \* the session's uncommitted view of the unit's chunk rows
    sv,           \* the call of save_chapter_chunks: what was stored before
                  \* it, and where it failed
    workflow,     \* which workflow assembles: "langgraph" or "refactored"
    window,       \* the analysed window the assembler is working on
    apc,          \* position of the chunk-assembly stage
    window_chunks,\* the chunks cut from the current window
    final_chunks, \* lengths of the chunk texts of final_chunks so far
    windows_done, \* number of windows of the document assembled so far
    page_start,   \* offset in the document at which the current window begins
    emitted,      \* the ranges of the document the texts of final_chunks
                  \* were cut from, in order
    fn,           \* the pure function under call
    input,        \* its arguments
    output,       \* what it returned
    fpc,          \* "called" or "returned"
    wr,           \* one run of run_workflow: its WorkflowState and what the
                  \* environment did to it
    wpc           \* the node of the graph the run is at

batchVars == <<batch, items, outcome, tpc, semaphore, results, completed,
               called, bpc, returned>>

storeVars == <<db_chunks, db_chapters, db_duration, generated, rpc, run, spc,
               tx, sv>>

asmVars == <<workflow, window, apc, window_chunks, final_chunks, windows_done,
             page_start, emitted>>

fnVars == <<fn, input, output, fpc>>

runVars == <<wr, wpc>>

vars == <<batchVars, storeVars, asmVars, fnVars, runVars>>

\* What the actions of one part leave alone.
notBatchVars == <<storeVars, asmVars, fnVars, runVars>>
notStoreVars == <<batchVars, asmVars, fnVars, runVars>>
notAsmVars == <<batchVars, storeVars, fnVars, runVars>>
notFnVars == <<batchVars, storeVars, asmVars, runVars>>
notRunVars == <<batchVars, storeVars, asmVars, fnVars>>

(***************************************************************************)
(* Batch operations.                                                       *)
(*   "generate"      process_all_chunks_async                              *)
(*   "analyze_node"  MusicGenerationWorkflow._analyze_emotions_node        *)
(*   "analyze_batch" EmotionAnalysisService.analyze_batch                  *)
(*   "analyze_all"   analyze_all_chunks_emotion_async                      *)
(***************************************************************************)
BatchKinds == {"generate", "analyze_node", "analyze_batch", "analyze_all"}

\* What the work on one item runs into.
\*   generate:      ok              the capability returns an audio path
\*                  prompt_error    prompt_service raises before the call
\*                  capability_raises  generate_music_samples raises
\*                  no_audio        generate_music_samples returns []
\*                  write_error     writing the chunk text file raises
\*   analyze_node:  ok / raises     (to_thread(analyze_emotions_with_gpt))
\*   analyze_batch: ok / fail (a Result.fail is returned) / raises
\*   analyze_all:   ok / fails (wait_for times out or the analysis raises:
\*                  both end in a dict with success=False)
OutcomesOf(b) ==
    CASE b = "generate" ->
            {"ok", "prompt_error", "capability_raises", "no_audio", "write_error"}
      [] b = "analyze_node" -> {"ok", "raises"}
      [] b = "analyze_batch" -> {"ok", "fail", "raises"}
      [] b = "analyze_all" -> {"ok", "fails"}

\* asyncio.Semaphore(n) of each batch.
Limit(b) ==
    CASE b = "generate" -> MAX_CONCURRENT_MUSIC_GENERATION
      [] b = "analyze_all" -> ASYNC_MAX_CONCURRENT_EMOTION_ANALYSIS
      [] OTHER -> MAX_CONCURRENT_EMOTION_ANALYSIS

Items == 1..items

NoResult == [item |-> 0, success |-> FALSE, audio |-> "none", raised |-> FALSE]

\* The dict process_single_chunk returns on its success path (lines 74-84).
SuccessArtifact(i, audio) ==
    [item |-> i, success |-> TRUE, audio |-> audio, raised |-> FALSE]

\* The dict process_single_chunk returns from its outer except (lines 86-94).
FailureArtifact(i) ==
    [item |-> i, success |-> FALSE, audio |-> "none", raised |-> FALSE]

\* An exception that escapes the task and lands in gather's slot.
RaisedResult(i) ==
    [item |-> i, success |-> FALSE, audio |-> "none", raised |-> TRUE]

\* The audio the inner try/except of process_single_chunk ends with:
\* the capability's file, or the one-second silent dummy file.
AudioAfterCall(o) == IF o \in {"capability_raises", "no_audio"} THEN "dummy" ELSE "real"

\* `async with semaphore`: asyncio wakes waiters first-in first-out, and the
\* tasks reach the semaphore in the order gather created them.
CanAcquireBypass(i) == tpc[i] = "waiting"

CanAcquire(i) ==
    /\ tpc[i] = "waiting"
    /\ semaphore > 0
    /\ \A j \in Items : j < i => tpc[j] # "waiting"

\* Leaving `async with semaphore`: release() runs on return and on exception.
SemaphoreAfterExitLeak(sem, res) == IF res.success THEN sem + 1 ELSE sem

SemaphoreAfterExit(sem, res) == sem + 1

\* asyncio.gather returns the results in the order of the awaitables.
GatherByCompletion == [k \in 1..Len(completed) |-> results[completed[k]]]

GatherResults == [k \in 1..items |-> results[k]]

\* The list each batch builds from gather's results.
\*   generate: only the dicts with success=True (lines 126-142)
\*   analyze_node: gather's list as it is (line 137)
\*   analyze_batch: an exception becomes a Result.fail (lines 280-290)
\*   analyze_all: only the dicts with success=True
\*                (async_emotion_analysis.py, lines 104-122)
BatchReturn ==
    CASE batch = "generate" ->
            SelectSeq(GatherResults, LAMBDA r : ~r.raised /\ r.success)
      [] batch = "analyze_node" -> GatherResults
      [] batch = "analyze_all" ->
            SelectSeq(GatherResults, LAMBDA r : ~r.raised /\ r.success)
      [] batch = "analyze_batch" ->
            [k \in 1..items |->
                IF GatherResults[k].raised
                    THEN [GatherResults[k] EXCEPT !.raised = FALSE]
                    ELSE GatherResults[k]]

BatchInit ==
    /\ batch \in BatchKinds
    /\ items \in 0..MaxItems
    /\ outcome \in [1..items -> OutcomesOf(batch)]
    /\ tpc = [i \in 1..items |-> "waiting"]
    /\ semaphore = Limit(batch)
    /\ results = [i \in 1..items |-> NoResult]
    /\ completed = <<>>
    /\ called = {}
    /\ bpc = "gathering"
    /\ returned = <<>>

\* Task i enters `async with semaphore`.
Acquire(i) ==
    /\ bpc = "gathering"
    /\ CanAcquire(i)
    /\ semaphore' = semaphore - 1
    /\ tpc' = [tpc EXCEPT ![i] = "entered"]
    /\ UNCHANGED <<batch, items, outcome, results, completed, called, bpc, returned>>
    /\ UNCHANGED notBatchVars

\* The synchronous part before the external call: for generation the two
\* prompt_service calls (lines 27-34); the call is then handed to the
\* executor (run_in_executor / to_thread / await analyze_segment).
StartCall(i) ==
    /\ bpc = "gathering"
    /\ tpc[i] = "entered"
    /\ IF batch = "generate" /\ outcome[i] = "prompt_error"
          THEN /\ tpc' = [tpc EXCEPT ![i] = "exit"]
               /\ results' = [results EXCEPT ![i] = FailureArtifact(i)]
               /\ called' = called
          ELSE /\ tpc' = [tpc EXCEPT ![i] = "calling"]
               /\ results' = results
               /\ called' = called \cup {i}
    /\ UNCHANGED <<batch, items, outcome, semaphore, completed, bpc, returned>>
    /\ UNCHANGED notBatchVars

\* The external call of task i comes back (in any order among the tasks in
\* flight) and the task runs to its return.
CallReturns(i) ==
    /\ bpc = "gathering"
    /\ tpc[i] = "calling"
    /\ outcome[i] \notin {"slow", "stuck"}
    /\ tpc' = [tpc EXCEPT ![i] = "exit"]
    /\ results' = [results EXCEPT ![i] =
          CASE batch = "generate" ->
                  IF outcome[i] = "write_error"
                      THEN FailureArtifact(i)
                      ELSE SuccessArtifact(i, AudioAfterCall(outcome[i]))
            [] batch \in {"analyze_node", "analyze_all"} ->
                  IF outcome[i] = "ok" THEN SuccessArtifact(i, "none")
                                       ELSE FailureArtifact(i)
            [] batch = "analyze_batch" ->
                  CASE outcome[i] = "ok" -> SuccessArtifact(i, "none")
                    [] outcome[i] = "fail" -> FailureArtifact(i)
                    [] outcome[i] = "raises" -> RaisedResult(i)]
    /\ UNCHANGED <<batch, items, outcome, semaphore, completed, called, bpc, returned>>
    /\ UNCHANGED notBatchVars

\* Task i leaves `async with semaphore` and finishes.
Release(i) ==
    /\ bpc = "gathering"
    /\ tpc[i] = "exit"
    /\ semaphore' = SemaphoreAfterExit(semaphore, results[i])
    /\ tpc' = [tpc EXCEPT ![i] = "done"]
    /\ completed' = Append(completed, i)
    /\ UNCHANGED <<batch, items, outcome, results, called, bpc, returned>>
    /\ UNCHANGED notBatchVars

\* gather completes when every task is done; the batch builds its list.
GatherDone ==
    /\ bpc = "gathering"
    /\ \A i \in Items : tpc[i] = "done"
    /\ bpc' = "returned"
    /\ returned' = BatchReturn
    /\ UNCHANGED <<batch, items, outcome, tpc, semaphore, results, completed, called>>
    /\ UNCHANGED notBatchVars

BatchNext ==
    \/ \E i \in Items : Acquire(i)
    \/ \E i \in Items : StartCall(i)
    \/ \E i \in Items : CallReturns(i)
    \/ \E i \in Items : Release(i)
    \/ GatherDone

(***************************************************************************)
(* Persistence: MySQLService.save_chapter_chunks, called for each page by  *)
(* the save_to_database node of run_workflow.                              *)
(***************************************************************************)
\* The (book_id, page) units of the model: page 1 of two books.
Units == {"alice_book", "bob_book"}

\* The text a run is started with; the chunk texts it stores depend on it.
Texts == {"v1", "v2"}

\* One row of table chunks (lines 112-127): chunk_index and text_content.
Row(i, t) == [index |-> i, text |-> t]

\* The artifacts a generation batch can return for a text that was cut into
\* n chunks: the successful ones, in input order, each with its 1-based
\* input index (process_all_chunks_async, lines 117-142).
RECURSIVE IncreasingSeqs(_)
IncreasingSeqs(n) ==
    IF n = 0 THEN {<<>>}
    ELSE IncreasingSeqs(n - 1) \cup {Append(q, n) : q \in IncreasingSeqs(n - 1)}

ArtifactLists(n, t) ==
    {[k \in 1..Len(q) |-> Row(q[k], t)] : q \in IncreasingSeqs(n)}

NoRun == [unit |-> "none", chunks |-> <<>>, prior |-> FALSE, calls |-> 0]
NoSave == [before |-> <<>>, duration |-> 0, failed_at |-> "none", inserted |-> 0]

StoreInit ==
    /\ db_chunks = [u \in Units |-> <<>>]
    /\ db_chapters = {}
    /\ db_duration = [u \in Units |-> 0]
    /\ generated = {}
    /\ rpc = "idle"
    /\ run = NoRun
    /\ spc = "idle"
    /\ tx = <<>>
    /\ sv = NoSave

\* run_workflow builds its initial state and invokes the graph (lines
\* 429-452): no lookup of an earlier result of the unit precedes the stages.
StartRun(u) ==
    /\ rpc = "idle"
    /\ run' = [unit |-> u, chunks |-> <<>>, prior |-> u \in generated, calls |-> 0]
    /\ rpc' = "generate"
    /\ UNCHANGED <<db_chunks, db_chapters, db_duration, generated, spc, tx, sv>>
    /\ UNCHANGED notStoreVars

\* The generate_music node: one capability call per final chunk; the batch
\* returns the successful artifacts.  A page with no artifact is not saved
\* (lines 374-381; with no artifact at all the page mapping is empty).
GenerateMusic(n, t, arts) ==
    /\ rpc = "generate"
    /\ arts \in ArtifactLists(n, t)
    /\ run' = [run EXCEPT !.chunks = arts, !.calls = n]
    /\ rpc' = IF arts = <<>> THEN "done" ELSE "save"
    /\ UNCHANGED <<db_chunks, db_chapters, db_duration, generated, spc, tx, sv>>
    /\ UNCHANGED notStoreVars

\* save_chapter_chunks is entered: a new session (line 60).
SaveBegin ==
    /\ rpc = "save"
    /\ spc = "idle"
    /\ spc' = "book"
    /\ tx' = db_chunks[run.unit]
    /\ sv' = [before |-> db_chunks[run.unit], duration |-> db_duration[run.unit],
              failed_at |-> "none", inserted |-> 0]
    /\ UNCHANGED <<db_chunks, db_chapters, db_duration, generated, rpc, run>>
    /\ UNCHANGED notStoreVars

\* INSERT INTO books ... ; commit (lines 62-76).
SaveBook ==
    /\ spc = "book"
    /\ spc' = "chapter"
    /\ UNCHANGED <<db_chunks, db_chapters, db_duration, generated, rpc, run, tx, sv>>
    /\ UNCHANGED notStoreVars

\* INSERT INTO chapters ... ON DUPLICATE KEY UPDATE ; commit ; SELECT id
\* (lines 78-101).
SaveChapter ==
    /\ spc = "chapter"
    /\ db_chapters' = db_chapters \cup {run.unit}
    /\ db_duration' = [db_duration EXCEPT ![run.unit] = Len(run.chunks) * GEN_DURATION]
    /\ spc' = "delete"
    /\ UNCHANGED <<db_chunks, generated, rpc, run, tx, sv>>
    /\ UNCHANGED notStoreVars

\* DELETE FROM chunks WHERE chapter_id = :chapter_id (lines 103-107).
RowsAfterDeleteKept(rows) == rows

RowsAfterDelete(rows) == <<>>

\* What other sessions read of the unit's chunk rows while this session has
\* uncommitted statements: sessionmaker(autocommit=False) (line 29).
VisibleUncommittedAutocommit(committed, working) == working

VisibleUncommitted(committed, working) == committed

SaveDelete ==
    /\ spc = "delete"
    /\ tx' = RowsAfterDelete(tx)
    /\ db_chunks' = [db_chunks EXCEPT ![run.unit] = VisibleUncommitted(@, tx')]
    /\ spc' = "insert"
    /\ UNCHANGED <<db_chapters, db_duration, generated, rpc, run, sv>>
    /\ UNCHANGED notStoreVars

\* One INSERT INTO chunks of the loop over `chunks` (lines 110-128).
SaveInsert ==
    /\ spc = "insert"
    /\ sv.inserted < Len(run.chunks)
    /\ tx' = Append(tx, run.chunks[sv.inserted + 1])
    /\ db_chunks' = [db_chunks EXCEPT ![run.unit] = VisibleUncommitted(@, tx')]
    /\ sv' = [sv EXCEPT !.inserted = @ + 1]
    /\ UNCHANGED <<db_chapters, db_duration, generated, rpc, run, spc>>
    /\ UNCHANGED notStoreVars

\* session.commit() after the loop, and the return (lines 130-133).
SaveCommit ==
    /\ spc = "insert"
    /\ sv.inserted = Len(run.chunks)
    /\ db_chunks' = [db_chunks EXCEPT ![run.unit] = tx]
    /\ spc' = "returned"
    /\ UNCHANGED <<db_chapters, db_duration, generated, rpc, run, tx, sv>>
    /\ UNCHANGED notStoreVars

\* Any statement or commit raises: session.rollback() discards what is not
\* committed, and the exception is raised again (lines 135-140).
SaveFails ==
    /\ spc \in {"book", "chapter", "delete", "insert"}
    /\ sv' = [sv EXCEPT !.failed_at = spc]
    /\ tx' = <<>>
    /\ spc' = "raised"
    /\ UNCHANGED <<db_chunks, db_chapters, db_duration, generated, rpc, run>>
    /\ UNCHANGED notStoreVars

\* The save_to_database node records the page's result (lines 385-406).
SaveDone ==
    /\ rpc = "save"
    /\ spc \in {"returned", "raised"}
    /\ generated' = IF spc = "returned" THEN generated \cup {run.unit} ELSE generated
    /\ rpc' = "done"
    /\ UNCHANGED <<db_chunks, db_chapters, db_duration, run, spc, tx, sv>>
    /\ UNCHANGED notStoreVars

\* run_workflow returns its result dict (lines 456-468).
FinishRun ==
    /\ rpc = "done"
    /\ rpc' = "idle"
    /\ run' = NoRun
    /\ spc' = "idle"
    /\ tx' = <<>>
    /\ sv' = NoSave
    /\ UNCHANGED <<db_chunks, db_chapters, db_duration, generated>>
    /\ UNCHANGED notStoreVars

StoreNext ==
    \/ \E u \in Units : StartRun(u)
    \/ \E n \in 0..MaxRows, t \in Texts : \E arts \in ArtifactLists(n, t) :
            GenerateMusic(n, t, arts)
    \/ SaveBegin
    \/ SaveBook
    \/ SaveChapter
    \/ SaveDelete
    \/ SaveInsert
    \/ SaveCommit
    \/ SaveFails
    \/ SaveDone
    \/ FinishRun


(***************************************************************************)
(* Chunk assembly.  A window text is described by the lengths of its       *)
(* spans: span k starts at the anchor of a detected phase (a non-blank     *)
(* character, since the anchor is stripped before it is searched) and,     *)
(* when window.ws = 1, ends with one blank character.  A phase position is *)
(* the offset at which a span starts.                                      *)
(***************************************************************************)
Workflows == {"langgraph", "refactored"}

\* split_text_with_sliding_window(text, max_size, overlap) as each workflow
\* calls it: a page that is not the last one has max_size characters plus
\* `overlap` characters of lookahead (fewer when the text ends inside the
\* lookahead); the last page has what is left, at most max_size.
MaxSize(wf) == IF wf = "langgraph" THEN LANGGRAPH_MAX_SIZE ELSE MAX_SEGMENT_SIZE
Overlap(wf) == IF wf = "langgraph" THEN LANGGRAPH_OVERLAP ELSE OVERLAP_SIZE

\* Span lengths of the model: below MIN_CHUNK_SIZE, MIN_CHUNK_SIZE itself,
\* and a long span, two of which fill a page that has lookahead.
LongSpan(wf) == (MaxSize(wf) + Overlap(wf) - 100) \div 2
SpanLengths(wf) == {20, MIN_CHUNK_SIZE, LongSpan(wf)}

RECURSIVE SumSeq(_)
SumSeq(q) == IF q = <<>> THEN 0 ELSE q[1] + SumSeq(Tail(q))

SeqsUpTo(n, S) == UNION {[1..k -> S] : k \in 1..n}

\* Offset at which span k starts.
StartOf(lens, k) == SumSeq(SubSeq(lens, 1, k - 1))

\* The phase list the detector adapter hands over for a window: one phase
\* at the start of every span after the first, in text order
\* (_calculate_positions sorts by position, None last), optionally a phase
\* anchored at offset 0, optionally a phase whose anchor was not found.
Phase(id, pos, found) == [id |-> id, pos |-> pos, found |-> found]

PhasesOf(lens, extra) ==
    LET inner == [k \in 1..(Len(lens) - 1) |-> Phase(k, StartOf(lens, k + 1), TRUE)]
    IN  CASE extra = "zero" -> <<Phase(0, 0, TRUE)>> \o inner
          [] extra = "null" -> inner \o <<Phase(Len(lens), 0, FALSE)>>
          [] OTHER -> inner

Window(lens, ws, extra) ==
    [total |-> SumSeq(lens), ws |-> ws, phases |-> PhasesOf(lens, extra)]

\* In the refactored workflow the analysis reaches the assembler through
\* EmotionAnalysisResult, whose validator drops the phases without a
\* position (types.py, lines 151-163).
ExtraPhases(wf) ==
    IF wf = "langgraph" THEN {"none", "zero", "null"} ELSE {"none", "zero"}

WindowsUpTo(wf, maxlen) ==
    {Window(lens, ws, extra) :
        lens \in {q \in SeqsUpTo(MaxSegs, SpanLengths(wf)) : SumSeq(q) <= maxlen},
        ws \in {0, 1}, extra \in ExtraPhases(wf)}

\* A page with lookahead, and a last page.
IsLastPage(wf, w) == w.total <= MaxSize(wf)
LanggraphPages == WindowsUpTo("langgraph", LANGGRAPH_MAX_SIZE + LANGGRAPH_OVERLAP)
RefactoredPages == WindowsUpTo("refactored", MAX_SEGMENT_SIZE + OVERLAP_SIZE)
Pages(wf) == IF wf = "langgraph" THEN LanggraphPages ELSE RefactoredPages

\* len(text[a:b].strip()) for offsets a < b that are span starts or the end.
StripLen(w, a, b) == IF b - a <= w.ws THEN 0 ELSE b - a - w.ws

Neutral == [tag |-> "neutral", phase |-> 0]
Before(ph) == [tag |-> "before", phase |-> ph.id]
After(ph) == [tag |-> "after", phase |-> ph.id]

\* A chunk: the length of its text, the offsets of the window it was cut
\* from and up to, and its context["emotions"].
Chunk(len, from, to, emotion) ==
    [len |-> len, from |-> from, to |-> to, emotion |-> emotion]

\* `temp_chunks[-1]["text"] += " " + final_text`
MergeTrailing(chunks, final_len, to) ==
    [chunks EXCEPT ![Len(chunks)] =
        [@ EXCEPT !.len = @ + 1 + final_len, !.to = to]]

ValidPhases(w) == SelectSeq(w.phases, LAMBDA ph : ph.found)

\* `len(segment_text) < MIN_CHUNK_SIZE` (line 215), and the test left out.
LgTooSmallNoCheck(n) == FALSE

LgTooSmall(n) == n < MIN_CHUNK_SIZE

\* A phase at or before last_pos, and a candidate span that is not cut:
\* the loop state goes on as it is (`continue` before
\* `last_pos = phase_pos`); each with its variant that moves last_pos to
\* the phase.
SkippedAdvancing(st, pos) == [st EXCEPT !.last_pos = pos]

Skipped(st, pos) == st

DeferredAdvancing(st, pos) == [st EXCEPT !.last_pos = pos]

Deferred(st, pos) == st

\* One iteration of the loop over valid_phases of _create_final_chunks_node
\* (lines 205-237) for the phase ph, with the loop's last_pos and
\* temp_chunks in st.
LgStep(w, ph, st) ==
    LET n == StripLen(w, st.last_pos, ph.pos)
    IN  IF ph.pos <= st.last_pos THEN Skipped(st, ph.pos)
        ELSE IF LgTooSmall(n) THEN Deferred(st, ph.pos)
        ELSE IF n > MAX_CHUNK_SIZE THEN [st EXCEPT !.last_pos = ph.pos]
        ELSE [last_pos |-> ph.pos,
              chunks |-> Append(st.chunks,
                            Chunk(n, st.last_pos, ph.pos, Before(ph)))]

\* The loop (lines 202-237) from phase k on.
RECURSIVE LgLoop(_, _, _, _)
LgLoop(w, valid, k, st) ==
    IF k > Len(valid) THEN st
    ELSE LgLoop(w, valid, k + 1, LgStep(w, valid[k], st))

\* The rest of the window after the loop (lines 239-258).
LgTrailing(w, valid, st) ==
    LET n == StripLen(w, st.last_pos, w.total)
    IN  IF ~(st.last_pos < w.total) THEN st.chunks
        ELSE IF n >= MIN_CHUNK_SIZE
            THEN IF n <= MAX_CHUNK_SIZE
                    THEN Append(st.chunks,
                            Chunk(n, st.last_pos, w.total, After(valid[Len(valid)])))
                    ELSE st.chunks
        ELSE IF st.chunks # <<>>
            THEN MergeTrailing(st.chunks, n, w.total)
        ELSE st.chunks

\* A window without usable phases becomes one chunk if its size allows
\* (lines 178-200).
LgWholeWindow(w) ==
    IF MIN_CHUNK_SIZE <= w.total /\ w.total <= MAX_CHUNK_SIZE
        THEN <<Chunk(w.total, 0, w.total, Neutral)>>
        ELSE <<>>

\* One iteration of the loop over emotion_analyses of
\* _create_final_chunks_node (lines 174-260), for an analysed window.
LgWindowChunks(w) ==
    LET valid == ValidPhases(w)
    IN  IF w.phases = <<>> THEN LgWholeWindow(w)
        ELSE IF valid = <<>> THEN LgWholeWindow(w)
        ELSE LgTrailing(w, valid,
                LgLoop(w, valid, 1, [last_pos |-> 0, chunks |-> <<>>]))

\* is_valid_chunk (chunk_processor.py, lines 139-152) on a text of length n.
IsValidChunk(n) == n > 0 /\ MIN_CHUNK_SIZE <= n /\ n <= MAX_CHUNK_SIZE

\* split_text_by_phases: one iteration of the loop (lines 195-220) ...
SpStep(w, ph, st) ==
    LET n == StripLen(w, st.last_pos, ph.pos)
    IN  IF ph.pos <= st.last_pos THEN Skipped(st, ph.pos)
        ELSE IF ~IsValidChunk(n) THEN Deferred(st, ph.pos)
        ELSE [last_pos |-> ph.pos,
              chunks |-> Append(st.chunks,
                            Chunk(n, st.last_pos, ph.pos, Before(ph)))]

\* ... the loop from phase k on ...
RECURSIVE SpLoop(_, _, _, _)
SpLoop(w, valid, k, st) ==
    IF k > Len(valid) THEN st
    ELSE SpLoop(w, valid, k + 1, SpStep(w, valid[k], st))

\* ... and the remaining text (lines 222-237).
SpTrailing(w, valid, st) ==
    LET n == StripLen(w, st.last_pos, w.total)
    IN  IF ~(st.last_pos < w.total) THEN st.chunks
        ELSE IF IsValidChunk(n)
            THEN Append(st.chunks,
                    Chunk(n, st.last_pos, w.total, After(valid[Len(valid)])))
        ELSE IF st.chunks # <<>>
            THEN MergeTrailing(st.chunks, n, w.total)
        ELSE st.chunks

split_text_by_phases(w) ==
    LET valid == ValidPhases(w)
    IN  IF w.phases = <<>> THEN <<>>
        ELSE IF valid = <<>> THEN <<>>
        ELSE SpTrailing(w, valid,
                SpLoop(w, valid, 1, [last_pos |-> 0, chunks |-> <<>>]))

\* merge_small_chunks (chunk_processor.py, lines 269-304), from index i on.
RECURSIVE merge_small_chunks(_, _)
merge_small_chunks(chunks, i) ==
    IF i > Len(chunks) THEN <<>>
    ELSE IF chunks[i].len < MIN_CHUNK_SIZE /\ i < Len(chunks)
        THEN <<Chunk(chunks[i].len + 1 + chunks[i + 1].len, chunks[i].from,
                     chunks[i + 1].to, chunks[i].emotion)>>
             \o merge_small_chunks(chunks, i + 2)
    ELSE <<chunks[i]>> \o merge_small_chunks(chunks, i + 1)

\* One iteration of the loop of _create_chunks_logic
\* (workflow_refactored.py, lines 369-393).  TextChunk strips the text it
\* is given (types.py, lines 107-112).
RfWindowChunks(w) ==
    IF w.phases = <<>>
        THEN IF IsValidChunk(w.total)
                THEN <<Chunk(StripLen(w, 0, w.total), 0, w.total, Neutral)>>
                ELSE <<>>
        ELSE merge_small_chunks(split_text_by_phases(w), 1)

WindowChunks(wf, w) == IF wf = "langgraph" THEN LgWindowChunks(w) ELSE RfWindowChunks(w)

NoWindow == [total |-> 0, ws |-> 0, phases |-> <<>>]

AsmIdle ==
    /\ workflow = "langgraph"
    /\ window = NoWindow
    /\ apc = "done"
    /\ window_chunks = <<>>
    /\ final_chunks = <<>>
    /\ windows_done = 0
    /\ page_start = 0
    /\ emitted = <<>>

\* The analyses of the first window of a document reach the assembly stage.
AsmInit ==
    /\ workflow \in Workflows
    /\ window \in Pages(workflow)
    /\ apc = "window"
    /\ window_chunks = <<>>
    /\ final_chunks = <<>>
    /\ windows_done = 0
    /\ page_start = 0
    /\ emitted = <<>>

\* The range of the document a chunk of the window at page_start was cut
\* from: the window text is text[pos:...] (split_text.py, lines 133-138).
DocRange(start, chunk) == [from |-> start + chunk.from, to |-> start + chunk.to]

\* Where the page after the one at pos begins: `pos = end` with
\* end = pos + max_size (split_text.py, lines 131, 141); the overlap is
\* not skipped.
NextPageStart(pos, max_size, overlap) == pos + max_size

\* The assembler cuts the current window and extends final_chunks.
AssembleWindow ==
    /\ apc = "window"
    /\ window_chunks' = WindowChunks(workflow, window)
    /\ final_chunks' = final_chunks \o
            [k \in 1..Len(window_chunks') |-> window_chunks'[k].len]
    /\ windows_done' = windows_done + 1
    /\ emitted' = emitted \o
            [k \in 1..Len(window_chunks') |->
                DocRange(page_start, window_chunks'[k])]
    /\ apc' = IF IsLastPage(workflow, window) THEN "done" ELSE "next"
    /\ UNCHANGED <<workflow, window, page_start>>
    /\ UNCHANGED notAsmVars

\* The loop moves on to the next window of the document.  The windows of
\* one document are cut from the same text, so they separate their spans
\* the same way.
NextWindow(w) ==
    /\ apc = "next"
    /\ windows_done < MaxWindows
    /\ w.ws = window.ws
    /\ window' = w
    /\ window_chunks' = <<>>
    /\ page_start' = NextPageStart(page_start, MaxSize(workflow), Overlap(workflow))
    /\ apc' = "window"
    /\ UNCHANGED <<workflow, final_chunks, windows_done, emitted>>
    /\ UNCHANGED notAsmVars

AsmNext ==
    \/ AssembleWindow
    \/ \E w \in Pages(workflow) : NextWindow(w)

(***************************************************************************)
(* Pure steps.  A text is a sequence of characters over a two-letter       *)
(* alphabet; offsets are 0-based as in the source.                         *)
(***************************************************************************)
Chars == {"a", "b"}

TextsOfLen(n) == [1..n -> Chars]

\* str.find: the lowest offset at which pat occurs in text, -1 if none.
Find(text, pat) ==
    LET hits == {i \in 0..(Len(text) - Len(pat)) :
                    SubSeq(text, i + 1, i + Len(pat)) = pat}
    IN  IF hits = {} THEN -1
        ELSE CHOOSE i \in hits : \A j \in hits : i <= j

\* A start_text after strip(): `head` is start_text[:30], `tail` the rest.
\* Only a head of full length can have a tail; full length is MaxAnchor
\* characters in the model.
Anchors ==
    {[head |-> h, tail |-> <<>>] : h \in UNION {TextsOfLen(n) : n \in 0..MaxAnchor}}
    \cup {[head |-> h, tail |-> <<"a">>] : h \in TextsOfLen(MaxAnchor)}

\* The position of one phase (_calculate_positions, lines 78-103;
\* calculate_phase_position, lines 18-55): exact match, then the match of
\* the first 30 characters, else None.
PositionOf(segment, id, anchor) ==
    LET start_text == anchor.head \o anchor.tail
        exact == Find(segment, start_text)
        short == Find(segment, anchor.head)
    IN  IF start_text = <<>> THEN Phase(id, 0, FALSE)
        ELSE IF exact # -1 THEN Phase(id, exact, TRUE)
        ELSE IF short # -1 THEN Phase(id, short, TRUE)
        ELSE Phase(id, 0, FALSE)

\* The sort key `position if position is not None else float('inf')`:
\* whether the key of p is below the key of q.
KeyLessNullFirst(p, q) == ~p.found /\ q.found

KeyLess(p, q) == p.found /\ (~q.found \/ p.pos < q.pos)

\* list.sort / sorted with that key: stable.
RECURSIVE InsertSorted(_, _)
InsertSorted(x, sorted) ==
    IF sorted = <<>> THEN <<x>>
    ELSE IF KeyLess(x, sorted[1]) THEN <<x>> \o sorted
    ELSE <<sorted[1]>> \o InsertSorted(x, Tail(sorted))

RECURSIVE SortByPosition(_)
SortByPosition(phases) ==
    IF phases = <<>> THEN <<>>
    ELSE InsertSorted(phases[Len(phases)],
                      SortByPosition(SubSeq(phases, 1, Len(phases) - 1)))

\* _calculate_positions (lines 64-109); the refactored service computes
\* the same with calculate_phase_position and sort_phases_by_position.
calculate_positions(segment, anchors) ==
    SortByPosition([k \in 1..Len(anchors) |-> PositionOf(segment, k, anchors[k])])

\* A window to reconcile: its text, the offset of the window in the full
\* text, and the start_text of each phase the detector returned.
ReconcileInputs(max_phases) ==
    {[segment |-> t, start_offset |-> o, anchors |-> a] :
        t \in TextsOfLen(MaxText),
        o \in 0..MaxOffset,
        a \in UNION {[1..n -> Anchors] : n \in 0..max_phases}}

\* find_turning_points_in_text, lines 26-32: the position of a phase of
\* analyze_emotions_with_gpt is set again from the first 100 characters of
\* its start_text, `segment_start + rel`, found or not.
TurningPoint(segment, segment_start, p, anchor) ==
    LET snippet == anchor.head \o anchor.tail
        rel == IF snippet # <<>> THEN Find(segment, snippet) ELSE 0
    IN  Phase(p.id, segment_start + rel, TRUE)

\* `points.sort(key=lambda x: x.get("position_in_full_text", 0))`.
RECURSIVE InsertByPos(_, _)
InsertByPos(x, sorted) ==
    IF sorted = <<>> THEN <<x>>
    ELSE IF x.pos < sorted[1].pos THEN <<x>> \o sorted
    ELSE <<sorted[1]>> \o InsertByPos(x, Tail(sorted))

RECURSIVE SortByPos(_)
SortByPos(points) ==
    IF points = <<>> THEN <<>>
    ELSE InsertByPos(points[Len(points)],
                     SortByPos(SubSeq(points, 1, Len(points) - 1)))

\* The minimum-gap filter of lines 36-46: a point is kept when it lies at
\* least min_gap after the last kept one (the first always is) and fewer
\* than max_points are kept.  has_last is FALSE while last_position is
\* -inf.
RECURSIVE GapFilter(_, _, _, _)
GapFilter(points, filtered, has_last, last_position) ==
    IF points = <<>> THEN filtered
    ELSE LET pos == points[1].pos
         IN  IF (~has_last \/ pos - last_position >= MIN_GAP)
                    /\ Len(filtered) < MAX_POINTS
                 THEN GapFilter(Tail(points), Append(filtered, points[1]), TRUE, pos)
             ELSE IF Len(filtered) >= MAX_POINTS THEN filtered
             ELSE GapFilter(Tail(points), filtered, has_last, last_position)

\* find_turning_points_in_text for a text of which the window at
\* segment_start is the only one with phases.
find_turning_points_in_text(segment, segment_start, anchors) ==
    LET phases == calculate_positions(segment, anchors)
        points == [k \in 1..Len(phases) |->
                    TurningPoint(segment, segment_start, phases[k],
                                 anchors[phases[k].id])]
    IN  GapFilter(SortByPos(points), <<>>, FALSE, 0)

\* `page_num = (i // CHUNKS_PER_PAGE) + 1` for the 0-based list position i,
\* and the same computed from the 1-based position.
PageNumOneBased(i, per_page) == ((i + 1) \div per_page) + 1

PageNum(i, per_page) == (i \div per_page) + 1

\* One iteration of the loop over enumerate(chunk_metadata)
\* (_create_page_mapping_node, lines 330-340): st.mapping is
\* page_chunk_mapping, st.pages[j] is chunk["page"] of the j-th chunk.
PageMappingStep(st, i, per_page) ==
    LET page_num == PageNum(i, per_page)
        opened == IF page_num \in DOMAIN st.mapping THEN st.mapping
                  ELSE st.mapping @@
                       (page_num :> [start_index |-> i + 1, end_index |-> i + 1,
                                     chunk_count |-> 0])
    IN  [mapping |-> [opened EXCEPT ![page_num] =
                        [@ EXCEPT !.end_index = i + 1,
                                  !.chunk_count = @ + 1]],
         pages |-> Append(st.pages, page_num)]

\* The loop over the first n chunks.
RECURSIVE create_page_mapping(_, _)
create_page_mapping(n, per_page) ==
    IF n = 0 THEN [mapping |-> <<>>, pages |-> <<>>]
    ELSE PageMappingStep(create_page_mapping(n - 1, per_page), n - 1, per_page)

PageMappingInputs ==
    {[n |-> n, per_page |-> pp] : n \in 0..MaxChunks, pp \in 1..MaxPerPage}

\* The page-mapping stage runs on the artifacts of the generation stage.
CreatePageMapping ==
    /\ fpc = "called"
    /\ fn = "create_page_mapping"
    /\ output' = create_page_mapping(input.n, input.per_page)
    /\ fpc' = "returned"
    /\ UNCHANGED <<fn, input>>
    /\ UNCHANGED notFnVars

\* A phase as the significance filter sees it: its place in the list it
\* came in and its significance (0 stands for a dict without the key,
\* `p.get("significance", 0)`).
FilterInputs(max_phases) ==
    {[phases |-> [k \in 1..n |-> [id |-> k, significance |-> sg[k]]],
      threshold |-> th] :
        n \in 0..max_phases, sg \in [1..max_phases -> 0..MAX_SIGNIFICANCE],
        th \in 1..MAX_SIGNIFICANCE}

\* `p.significance >= threshold`, and the test with the bound left out.
IsSignificantStrict(p, threshold) == p.significance > threshold

IsSignificant(p, threshold) == p.significance >= threshold

\* filter_significant_phases (chunk_processor.py, lines 81-105); the legacy
\* adapter filters with the same comprehension and SIGNIFICANCE_THRESHOLD.
filter_significant_phases(phases, threshold) ==
    LET Keep(p) == IsSignificant(p, threshold)
    IN  SelectSeq(phases, Keep)

FnIdle ==
    /\ fn = "none"
    /\ input = <<>>
    /\ output = <<>>
    /\ fpc = "returned"

FnInit ==
    /\ \/ fn = "calculate_positions" /\ input \in ReconcileInputs(MaxPhases)
       \/ fn = "create_page_mapping" /\ input \in PageMappingInputs
       \/ fn = "filter_significant_phases" /\ input \in FilterInputs(MaxPhases)
       \/ fn = "find_turning_points_in_text" /\ input \in ReconcileInputs(MaxPhases)
    /\ output = <<>>
    /\ fpc = "called"

Reconcile ==
    /\ fpc = "called"
    /\ fn = "calculate_positions"
    /\ output' = calculate_positions(input.segment, input.anchors)
    /\ fpc' = "returned"
    /\ UNCHANGED <<fn, input>>
    /\ UNCHANGED notFnVars

\* The comprehension builds a new list; the list passed in is left as it is.
FilterSignificantPhases ==
    /\ fpc = "called"
    /\ fn = "filter_significant_phases"
    /\ output' = filter_significant_phases(input.phases, input.threshold)
    /\ fpc' = "returned"
    /\ UNCHANGED <<fn, input>>
    /\ UNCHANGED notFnVars

FindTurningPoints ==
    /\ fpc = "called"
    /\ fn = "find_turning_points_in_text"
    /\ output' = find_turning_points_in_text(input.segment, input.start_offset,
                                             input.anchors)
    /\ fpc' = "returned"
    /\ UNCHANGED <<fn, input>>
    /\ UNCHANGED notFnVars

FnNext ==
    \/ Reconcile
    \/ FindTurningPoints
    \/ CreatePageMapping
    \/ FilterSignificantPhases

(***************************************************************************)
(* The assembler pass over one text, iteration by iteration: the loop of   *)
(* _create_final_chunks_node on a window of the langgraph workflow, and    *)
(* split_text_by_phases (chunk_processor.py, lines 159-237) on any text    *)
(* and any phase list.  output holds the loop's position k in              *)
(* valid_phases, last_pos and the chunks so far.                           *)
(***************************************************************************)
CutFns == {"create_final_chunks", "split_text_by_phases"}

\* A span longer than MAX_CHUNK_SIZE.
OverSpan == MAX_CHUNK_SIZE + 100

CutSpans(f) ==
    IF f = "create_final_chunks" THEN SpanLengths("langgraph")
    ELSE SpanLengths("refactored") \cup {OverSpan}

\* The windows of the langgraph workflow have at most max_size + overlap
\* characters; split_text_by_phases takes a text of any length.
CutLens(f) ==
    {lens \in SeqsUpTo(MaxSegs, CutSpans(f)) :
        f = "create_final_chunks" =>
            SumSeq(lens) <= LANGGRAPH_MAX_SIZE + LANGGRAPH_OVERLAP}

\* Where an anchor can be found: at the start of any span.
AnchorOffsets(lens) == {StartOf(lens, k) : k \in 1..Len(lens)}

NonDecreasingOffsets(ps) == \A k \in 1..(Len(ps) - 1) : ps[k] <= ps[k + 1]

\* The phase lists: the node gets its list sorted by _calculate_positions
\* (equal positions included); split_text_by_phases takes any list.
CutPhaseOffsets(f, lens) ==
    {ps \in {<<>>} \cup SeqsUpTo(MaxCutPhases, AnchorOffsets(lens)) :
        f = "create_final_chunks" => NonDecreasingOffsets(ps)}

CutInputs(f) ==
    UNION {{[total |-> SumSeq(lens), ws |-> ws,
             phases |-> [k \in 1..Len(ps) |-> Phase(k, ps[k], TRUE)]] :
                ws \in {0, 1}, ps \in CutPhaseOffsets(f, lens)} :
           lens \in CutLens(f)}

CutStepOf(f, w, ph, st) ==
    IF f = "create_final_chunks" THEN LgStep(w, ph, st) ELSE SpStep(w, ph, st)

CutTrailingOf(f, w, valid, st) ==
    IF f = "create_final_chunks" THEN LgTrailing(w, valid, st)
    ELSE SpTrailing(w, valid, st)

CutInit ==
    /\ fn \in CutFns
    /\ input \in CutInputs(fn)
    /\ output = <<>>
    /\ fpc = "called"

\* `if not phases`, the filter of the phases without a position, and the
\* start of the loop.
CutBegin ==
    /\ fpc = "called"
    /\ fn \in CutFns
    /\ IF ValidPhases(input) = <<>>
          THEN /\ output' = [k |-> 1, last_pos |-> 0,
                             chunks |-> IF fn = "create_final_chunks"
                                            THEN LgWholeWindow(input) ELSE <<>>]
               /\ fpc' = "returned"
          ELSE /\ output' = [k |-> 1, last_pos |-> 0, chunks |-> <<>>]
               /\ fpc' = "loop"
    /\ UNCHANGED <<fn, input>>
    /\ UNCHANGED notFnVars

\* One iteration of `for phase in valid_phases`.
CutStep ==
    /\ fpc = "loop"
    /\ output.k <= Len(ValidPhases(input))
    /\ LET st == CutStepOf(fn, input, ValidPhases(input)[output.k],
                           [last_pos |-> output.last_pos, chunks |-> output.chunks])
       IN  output' = [k |-> output.k + 1, last_pos |-> st.last_pos,
                      chunks |-> st.chunks]
    /\ UNCHANGED <<fn, input, fpc>>
    /\ UNCHANGED notFnVars

\* The text left after the loop.
CutTrailing ==
    /\ fpc = "loop"
    /\ output.k > Len(ValidPhases(input))
    /\ output' = [output EXCEPT !.chunks =
            CutTrailingOf(fn, input, ValidPhases(input),
                          [last_pos |-> output.last_pos, chunks |-> output.chunks])]
    /\ fpc' = "returned"
    /\ UNCHANGED <<fn, input>>
    /\ UNCHANGED notFnVars

CutNext ==
    \/ CutBegin
    \/ CutStep
    \/ CutTrailing

(***************************************************************************)
(* The two splitter modes (src/services/split_text.py).  A text is given   *)
(* by its length; a window by the offsets it is cut from and up to.  The   *)
(* maximum size and the overlap are arguments of the model, so that the    *)
(* loops run for overlaps below, at and above the maximum size.            *)
(***************************************************************************)
SplitModes == {"processing_segments", "sliding_window"}

SplitInputs ==
    {[len |-> l, max_size |-> m, overlap |-> o] :
        l \in 0..MaxLen, m \in 1..MaxWindowSize, o \in 0..MaxOverlap}

WindowOf(from, to) == [start |-> from, end |-> to]

Max(a, b) == IF a >= b THEN a ELSE b
Min(a, b) == IF a <= b THEN a ELSE b

\* What _find_sentence_boundary (lines 28-64) can return for a window that
\* starts at start_pos: initial_end_pos, or the end of a sentence found
\* after search_start and not beyond start_pos + MAX_SEGMENT_SIZE.  Which
\* one depends on the text.
SentenceBoundaries(start_pos, initial_end_pos, max_size) ==
    LET search_start == Max(start_pos + (4 * max_size) \div 5, start_pos)
    IN  {initial_end_pos} \cup
        {e \in (search_start + 1)..(start_pos + max_size) : start_pos < e}

\* `current_pos = max(current_pos + 1, next_pos)` (lines 103-104), and the
\* assignment without the guard.
NextPosUnguarded(current_pos, chunk_end, overlap) == chunk_end - overlap

NextPos(current_pos, chunk_end, overlap) ==
    Max(current_pos + 1, chunk_end - overlap)

\* The whole text as one window when it is short (lines 74-76, 123-124),
\* and the test left out.
IsShortNever(len, max_size) == FALSE

IsShort(len, max_size) == len <= max_size

SplitInit ==
    /\ fn \in SplitModes
    /\ input \in SplitInputs
    /\ output = [windows |-> <<>>, pos |-> 0]
    /\ fpc = "called"

\* Entry of either mode.
SplitBegin ==
    /\ fpc = "called"
    /\ fn \in SplitModes
    /\ IF IsShort(input.len, input.max_size)
          THEN /\ output' = [output EXCEPT !.windows = <<WindowOf(0, input.len)>>]
               /\ fpc' = "returned"
          ELSE /\ output' = [output EXCEPT !.pos = 0]
               /\ fpc' = "loop"
    /\ UNCHANGED <<fn, input>>
    /\ UNCHANGED notFnVars

\* One iteration of the loop of split_text_into_processing_segments
\* (lines 81-104), the sentence boundary being chunk_end.
SegmentStep(chunk_end) ==
    /\ fpc = "loop"
    /\ fn = "processing_segments"
    /\ output.pos < input.len
    /\ LET initial == Min(output.pos + input.max_size, input.len)
       IN  chunk_end \in
             IF initial < input.len
                THEN SentenceBoundaries(output.pos, initial, input.max_size)
                ELSE {initial}
    /\ IF chunk_end = input.len
          THEN /\ output' = [output EXCEPT
                                !.windows = Append(@, WindowOf(output.pos, chunk_end))]
               /\ fpc' = "returned"
          ELSE /\ output' = [windows |-> Append(output.windows,
                                               WindowOf(output.pos, chunk_end)),
                             pos |-> NextPos(output.pos, chunk_end, input.overlap)]
               /\ fpc' = "loop"
    /\ UNCHANGED <<fn, input>>
    /\ UNCHANGED notFnVars

\* The page text of one iteration (lines 133-138): `text[pos:end + overlap]`
\* when text remains after `end`, `text[pos:end]` for the last page; and a
\* page that takes twice the overlap.
SlidingPageWide(pos, end, len, overlap) ==
    IF end < len THEN WindowOf(pos, Min(end + 2 * overlap, len))
                 ELSE WindowOf(pos, end)

SlidingPage(pos, end, len, overlap) ==
    IF end < len THEN WindowOf(pos, Min(end + overlap, len))
                 ELSE WindowOf(pos, end)

\* One iteration of the loop of split_text_with_sliding_window
\* (lines 129-141).
SlidingStep ==
    /\ fpc = "loop"
    /\ fn = "sliding_window"
    /\ output.pos < input.len
    /\ LET end == Min(output.pos + input.max_size, input.len)
           page == SlidingPage(output.pos, end, input.len, input.overlap)
       IN  output' = [windows |-> Append(output.windows, page), pos |-> end]
    /\ fpc' = "loop"
    /\ UNCHANGED <<fn, input>>
    /\ UNCHANGED notFnVars

\* The loop condition fails and the function returns (lines 129, 143-144;
\* line 106).
SplitLoopEnd ==
    /\ fpc = "loop"
    /\ ~(output.pos < input.len)
    /\ fpc' = "returned"
    /\ UNCHANGED <<fn, input, output>>
    /\ UNCHANGED notFnVars

SplitNext ==
    \/ SplitBegin
    \/ \E e \in 1..MaxLen : SegmentStep(e)
    \/ SlidingStep
    \/ SplitLoopEnd

(***************************************************************************)
(* The phase detector adapter: analyze_emotions_with_gpt ("legacy", used   *)
(* by the langgraph workflow) and EmotionAnalysisService.analyze_segment   *)
(* ("service", used by the refactored workflow).  The detector is an       *)
(* external capability: each attempt raises, answers without phases, or    *)
(* answers with phases.                                                    *)
(***************************************************************************)
Adapters == {"legacy", "service"}

\* What one call of the phase-detection capability gives the adapter: an
\* answer with or without phases; "default" when the call failed inside
\* OpenAIManager.chat_with_structured_output, which catches every
\* exception and returns a fixed dict without emotional_phases
\* (model_manager.py, lines 73-87); "raises" when an exception does reach
\* the adapter (a model manager passed to the service, or the
\* post-processing of the answer).
DetectorOutcomes == {"raises", "default", "empty", "phases"}

\* `result.get("emotional_phases", [])` on the answer.
PhasesOfAnswer(oc) == IF oc = "default" THEN "empty" ELSE oc

AdapterInputs ==
    {[short |-> sh, outcomes |-> oc] :
        sh \in BOOLEAN, oc \in [1..RETRY_ATTEMPTS -> DetectorOutcomes]}

\* What the adapter hands to its caller: kind is "ok" for a normal result
\* (the dict of the legacy adapter, Result.ok of the service), "error" for
\* Result.fail, "raised" for an exception.
AdapterResult(kind, phases) == [kind |-> kind, phases |-> phases]

\* After the last failed attempt: `return {"emotional_phases": []}`
\* (analyze_emotions_with_gpt.py, lines 60-61) and `return Result.fail(...)`
\* (emotion_analysis_service.py, lines 133-136).
TotalFailure(adapter) ==
    IF adapter = "legacy" THEN AdapterResult("ok", "empty")
    ELSE AdapterResult("error", "none")

AdapterInit ==
    /\ fn \in Adapters
    /\ input \in AdapterInputs
    /\ output = [attempt |-> 0, calls |-> 0, result |-> AdapterResult("none", "none")]
    /\ fpc = "called"

\* Entry: analyze_segment refuses a segment shorter than 10 characters
\* (lines 80-84); the legacy adapter builds the prompt (lines 33-37).
AdapterBegin ==
    /\ fpc = "called"
    /\ fn \in Adapters
    /\ IF fn = "service" /\ input.short
          THEN /\ output' = [output EXCEPT !.result = AdapterResult("error", "none")]
               /\ fpc' = "returned"
          ELSE /\ output' = [output EXCEPT !.attempt = 1]
               /\ fpc' = "attempt"
    /\ UNCHANGED <<fn, input>>
    /\ UNCHANGED notFnVars

\* One attempt: the detector is called; an answer is post-processed and
\* returned, an exception is caught and the next attempt follows, or the
\* attempts are used up (analyze_emotions_with_gpt.py, lines 38-61;
\* emotion_analysis_service.py, lines 88-98 and 114-136).
AdapterAttempt ==
    /\ fpc = "attempt"
    /\ fn \in Adapters
    /\ LET oc == input.outcomes[output.attempt]
       IN  IF oc # "raises"
              THEN /\ output' = [output EXCEPT !.calls = @ + 1,
                                               !.result = AdapterResult("ok", PhasesOfAnswer(oc))]
                   /\ fpc' = "returned"
           ELSE IF output.attempt < RETRY_ATTEMPTS
              THEN /\ output' = [output EXCEPT !.calls = @ + 1, !.attempt = @ + 1]
                   /\ fpc' = "attempt"
           ELSE /\ output' = [output EXCEPT !.calls = @ + 1,
                                            !.result = TotalFailure(fn)]
                /\ fpc' = "returned"
    /\ UNCHANGED <<fn, input>>
    /\ UNCHANGED notFnVars

AdapterNext ==
    \/ AdapterBegin
    \/ AdapterAttempt

(***************************************************************************)
(* One run of run_workflow through the six nodes of the graph              *)
(* (langgraph_workflow.py, lines 51-72; workflow_refactored.py, lines      *)
(* 82-107).  Counts stand for the lists of the WorkflowState.              *)
(***************************************************************************)
\* "empty" is the empty string, "blank" a few whitespace characters (fewer
\* than 10), "prose" any other text.
TextKinds == {"empty", "blank", "prose"}

NoCalls == [detector |-> 0, prompt |-> 0, generator |-> 0, database |-> 0]

RunInit ==
    /\ wr \in {[kind |-> k, text |-> t, nwin |-> 0, analyses |-> <<>>,
                dropped |-> FALSE, final |-> 0, metadata |-> 0,
                indices |-> <<>>, rows |-> <<>>,
                mapping |-> <<>>, save_fails |-> {}, saved |-> {},
                page_results |-> <<>>, total_duration |-> 0,
                successful_pages |-> 0, errors |-> <<>>, calls |-> NoCalls,
                stages |-> <<>>] :
                    k \in Workflows, t \in TextKinds}
    /\ wpc = "split_text"

RunIdle ==
    /\ wr = [kind |-> "langgraph", text |-> "prose", nwin |-> 0, analyses |-> <<>>,
             dropped |-> FALSE, final |-> 0, metadata |-> 0,
                indices |-> <<>>, rows |-> <<>>,
             mapping |-> <<>>, save_fails |-> {}, saved |-> {},
             page_results |-> <<>>, total_duration |-> 0,
             successful_pages |-> 0, errors |-> <<>>, calls |-> NoCalls,
             stages |-> <<>>]
    /\ wpc = "returned"

\* split_text node: a text no longer than max_size is its own single window.
SplitTextNode(n) ==
    /\ wpc = "split_text"
    /\ wr.text \in {"empty", "blank"} => n = 1
    /\ wr' = [wr EXCEPT !.stages = Append(@, "split_text"), !.nwin = n]
    /\ wpc' = "analyze_emotions"
    /\ UNCHANGED notRunVars

\* A window the service refuses without calling the detector:
\* `if not segment or len(segment) < 10` (emotion_analysis_service.py,
\* lines 79-84).
RefusedWindow(kind, text) == kind = "refactored" /\ text \in {"empty", "blank"}

\* analyze_emotions node.  langgraph: analyze_emotions_with_gpt is run for
\* every window and hands back a dict even when the detector failed.
\* refactored: analyze_batch gives a Result per window, Result.fail for a
\* refused window and after the last failed attempt.
AnalyzeEmotionsNode(outs) ==
    /\ wpc = "analyze_emotions"
    /\ outs \in [1..wr.nwin -> {"ok", "failed"}]
    /\ \A w \in 1..wr.nwin :
          /\ wr.kind = "langgraph" => outs[w] = "ok"
          /\ RefusedWindow(wr.kind, wr.text) => outs[w] = "failed"
    /\ wr' = [wr EXCEPT !.stages = Append(@, "analyze_emotions"),
                !.analyses = outs,
                !.calls.detector =
                    IF RefusedWindow(wr.kind, wr.text) THEN 0 ELSE wr.nwin]
    /\ wpc' = "create_final_chunks"
    /\ UNCHANGED notRunVars

\* create_final_chunks node: a window whose analysis failed is skipped; a
\* window of an empty or blank text is below MIN_CHUNK_SIZE and is skipped;
\* any other window gives cs[w] chunks, and sk[w] tells whether some of its
\* text was skipped for its size.  Skips are logged, nothing else.
CreateFinalChunksNode(cs, sk) ==
    /\ wpc = "create_final_chunks"
    /\ cs \in [1..wr.nwin -> 0..MaxWindowChunks]
    /\ sk \in [1..wr.nwin -> BOOLEAN]
    /\ \A w \in 1..wr.nwin :
          /\ (wr.analyses[w] = "failed" \/ wr.text # "prose") =>
                (cs[w] = 0 /\ sk[w])
          /\ cs[w] = 0 => sk[w]
    /\ wr' = [wr EXCEPT !.stages = Append(@, "create_final_chunks"), !.final = SumSeq(cs),
                        !.dropped = \E w \in 1..wr.nwin : sk[w]]
    /\ wpc' = "generate_music"
    /\ UNCHANGED notRunVars

\* generate_music node: the global prompt is generated from the text, then
\* process_all_chunks_async asks for a regional prompt and an audio sample
\* per chunk and returns the m artifacts whose files could be written
\* (langgraph_workflow.py, lines 292-310; async_music_generation.py, lines
\* 126-142).
GenerateMusicNode(q) ==
    /\ wpc = "generate_music"
    /\ q \in IncreasingSeqs(wr.final)
    /\ wr' = [wr EXCEPT !.stages = Append(@, "generate_music"),
                        !.metadata = Len(q), !.indices = q,
                        !.dropped = @ \/ Len(q) < wr.final,
                        !.calls.prompt = @ + 1 + wr.final,
                        !.calls.generator = wr.final]
    /\ wpc' = "create_page_mapping"
    /\ UNCHANGED notRunVars

\* The global prompt call raises: the langgraph node records the error and
\* goes on without artifacts (lines 312-317).
GenerateMusicNodeFails ==
    /\ wpc = "generate_music"
    /\ wr.kind = "langgraph"
    /\ wr' = [wr EXCEPT !.stages = Append(@, "generate_music"), !.dropped = @ \/ wr.final > 0,
                        !.calls.prompt = @ + 1,
                        !.errors = Append(@, "generate_music")]
    /\ wpc' = "create_page_mapping"
    /\ UNCHANGED notRunVars

\* The refactored node has no handler: the exception of the global prompt
\* call leaves ainvoke and run_workflow (workflow_refactored.py, lines
\* 252-253 and 550).
GenerateMusicNodeRaises ==
    /\ wpc = "generate_music"
    /\ wr.kind = "refactored"
    /\ wr' = [wr EXCEPT !.stages = Append(@, "generate_music"), !.dropped = @ \/ wr.final > 0,
                        !.calls.prompt = @ + 1]
    /\ wpc' = "raised"
    /\ UNCHANGED notRunVars

\* create_page_mapping node.
CreatePageMappingNode ==
    /\ wpc = "create_page_mapping"
    /\ wr' = [wr EXCEPT !.stages = Append(@, "create_page_mapping"),
                !.mapping = create_page_mapping(wr.metadata, CHUNKS_PER_PAGE).mapping]
    /\ wpc' = "save_to_database"
    /\ UNCHANGED notRunVars

\* The pages the loop of the save node gets to (it catches the exception of
\* a page and goes on), and a loop that stops at the first failing page.
PagesReachedUntilFailure(pages, fails) ==
    {pg \in pages : \A f \in fails : pg <= f}

PagesReached(pages, fails) == pages

\* The entry of page_results for one page (lines 385-406).
PageResult(pg, mapping, fails) ==
    IF pg \in fails
        THEN [page |-> pg, error |-> TRUE, chunks |-> 0, duration |-> 0]
        ELSE [page |-> pg, error |-> FALSE, chunks |-> mapping[pg].chunk_count,
              duration |-> mapping[pg].chunk_count * GEN_DURATION]

RECURSIVE SumDurations(_)
SumDurations(rs) ==
    IF rs = <<>> THEN 0 ELSE rs[1].duration + SumDurations(Tail(rs))

\* `page_chunks = state["chunk_metadata"][start_idx:end_idx]` (lines
\* 369-372): the artifacts of a page, here their "index" values, which
\* save_chapter_chunks stores as chunk_index (mysql_service.py, line 121).
PageChunks(metadata, mapping, pg) ==
    SubSeq(metadata, mapping[pg].start_index, mapping[pg].end_index)

\* save_to_database node: save_chapter_chunks is called for each page of
\* the mapping; it raises for the pages in fails.
SaveToDatabaseNode(fails) ==
    /\ wpc = "save_to_database"
    /\ fails \in SUBSET (DOMAIN wr.mapping)
    /\ LET pages == DOMAIN wr.mapping
           reached == PagesReached(pages, fails)
           prs == [pg \in 1..Cardinality(reached) |-> PageResult(pg, wr.mapping, fails)]
       IN  wr' = [wr EXCEPT !.stages = Append(@, "save_to_database"),
                    !.save_fails = fails,
                    !.saved = reached \ fails,
                    !.rows = [pg \in reached \ fails |->
                                PageChunks(wr.indices, wr.mapping, pg)],
                    !.page_results = prs,
                    !.total_duration = SumDurations(prs),
                    !.successful_pages =
                        Cardinality({pg \in DOMAIN prs : ~prs[pg].error}),
                    !.calls.database = Cardinality(reached)]
    /\ wpc' = "result"
    /\ UNCHANGED notRunVars

\* run_workflow builds its result from the final state (lines 456-468).
ReturnResult ==
    /\ wpc = "result"
    /\ wpc' = "returned"
    /\ UNCHANGED wr
    /\ UNCHANGED notRunVars

RunNext ==
    \/ \E n \in 1..MaxRunWindows : SplitTextNode(n)
    \/ \E outs \in [1..wr.nwin -> {"ok", "failed"}] : AnalyzeEmotionsNode(outs)
    \/ \E cs \in [1..wr.nwin -> 0..MaxWindowChunks], sk \in [1..wr.nwin -> BOOLEAN] :
            CreateFinalChunksNode(cs, sk)
    \/ \E q \in IncreasingSeqs(wr.final) : GenerateMusicNode(q)
    \/ GenerateMusicNodeFails
    \/ GenerateMusicNodeRaises
    \/ CreatePageMappingNode
    \/ \E fails \in SUBSET (DOMAIN wr.mapping) : SaveToDatabaseNode(fails)
    \/ ReturnResult

\* Calls that take their time: "stuck" never returns; "slow" returns, but
\* only after EMOTION_ANALYSIS_TIMEOUT, the one timeout there is
\* (asyncio.wait_for in safe_analyze_chunk_emotion, lines 61-64).  The node
\* of the workflow awaits to_thread, analyze_batch awaits analyze_segment
\* and process_single_chunk awaits run_in_executor, each without a timeout.
SlowOutcomesOf(b) ==
    IF b = "analyze_all" THEN {"ok", "slow", "stuck"} ELSE {"ok", "stuck"}

StuckInit ==
    /\ batch \in BatchKinds
    /\ items \in 1..MaxItems
    /\ outcome \in [1..items -> SlowOutcomesOf(batch)]
    /\ tpc = [i \in 1..items |-> "waiting"]
    /\ semaphore = Limit(batch)
    /\ results = [i \in 1..items |-> NoResult]
    /\ completed = <<>>
    /\ called = {}
    /\ bpc = "gathering"
    /\ returned = <<>>

\* wait_for expires on a slow call.  It cancels analyze_chunk_emotion_async,
\* whose `with ThreadPoolExecutor()` block is left through
\* shutdown(wait=True): the event loop waits there for the worker thread,
\* so nothing else runs until the call is back.  Then TimeoutError reaches
\* safe_analyze_chunk_emotion, which returns its timeout dict
\* (async_emotion_analysis.py, lines 28-34 and 61-72).
Timeout(i) ==
    /\ bpc = "gathering"
    /\ batch = "analyze_all"
    /\ tpc[i] = "calling"
    /\ outcome[i] = "slow"
    /\ tpc' = [tpc EXCEPT ![i] = "exit"]
    /\ results' = [results EXCEPT ![i] = FailureArtifact(i)]
    /\ UNCHANGED <<batch, items, outcome, semaphore, completed, called, bpc, returned>>
    /\ UNCHANGED notBatchVars

\* wait_for expires on a call that never returns: the event loop stays in
\* shutdown(wait=True).
TimeoutBlocks(i) ==
    /\ bpc = "gathering"
    /\ batch = "analyze_all"
    /\ tpc[i] = "calling"
    /\ outcome[i] = "stuck"
    /\ bpc' = "blocked"
    /\ UNCHANGED <<batch, items, outcome, tpc, semaphore, results, completed, called, returned>>
    /\ UNCHANGED notBatchVars

StuckNext ==
    \/ BatchNext
    \/ \E i \in Items : Timeout(i)
    \/ \E i \in Items : TimeoutBlocks(i)

\* The batch operations at rest.
BatchIdle ==
    /\ batch = "generate"
    /\ items = 0
    /\ outcome = <<>>
    /\ tpc = <<>>
    /\ semaphore = Limit("generate")
    /\ results = <<>>
    /\ completed = <<>>
    /\ called = {}
    /\ bpc = "returned"
    /\ returned = <<>>

Init == BatchInit /\ StoreInit /\ AsmIdle /\ FnIdle /\ RunIdle

Next == BatchNext

Spec == Init /\ [][Next]_vars

InitStore == BatchIdle /\ StoreInit /\ AsmIdle /\ FnIdle /\ RunIdle

SpecStore == InitStore /\ [][StoreNext]_vars

InitAsm == BatchIdle /\ StoreInit /\ AsmInit /\ FnIdle /\ RunIdle

SpecAsm == InitAsm /\ [][AsmNext]_vars

InitFn == BatchIdle /\ StoreInit /\ AsmIdle /\ FnInit /\ RunIdle

SpecFn == InitFn /\ [][FnNext]_vars

InitAdapter == BatchIdle /\ StoreInit /\ AsmIdle /\ AdapterInit /\ RunIdle

SpecAdapter == InitAdapter /\ [][AdapterNext]_vars

InitStuck == StuckInit /\ StoreInit /\ AsmIdle /\ FnIdle /\ RunIdle

FairSpecStuck == InitStuck /\ [][StuckNext]_vars /\ WF_vars(StuckNext)

InitCut == BatchIdle /\ StoreInit /\ AsmIdle /\ CutInit /\ RunIdle

SpecCut == InitCut /\ [][CutNext]_vars

InitRun == BatchIdle /\ StoreInit /\ AsmIdle /\ FnIdle /\ RunInit

SpecRun == InitRun /\ [][RunNext]_vars

InitSplit == BatchIdle /\ StoreInit /\ AsmIdle /\ SplitInit /\ RunIdle

SpecSplit == InitSplit /\ [][SplitNext]_vars

\* The splitter loops run on: there is no suspension point in them.
FairSpecSplit == InitSplit /\ [][SplitNext]_vars /\ WF_vars(SplitNext)

\* The event loop runs every ready task and every external call comes back.
FairSpec == Init /\ [][Next]_vars /\ WF_vars(Next)

(***************************************************************************)
(* Properties of the batch operations.                                     *)
(***************************************************************************)
InFlight == {i \in Items : tpc[i] = "calling"}
Holding == {i \in Items : tpc[i] \in {"entered", "calling", "exit"}}
CapabilityFailed(i) == outcome[i] \in {"capability_raises", "no_audio"}
GenerationReturned == batch = "generate" /\ bpc = "returned"

\* C1: the generation batch returns exactly N artifacts, one per input
\* chunk, whatever subset of the chunks fails (capability error, prompt
\* error or file-write error).
C1_OneArtifactPerChunk ==
    GenerationReturned =>
        /\ Len(returned) = items
        /\ \A k \in 1..Len(returned) : returned[k].item = k

\* C2: when the audio capability fails for a chunk (it raises, or returns
\* no audio file) the chunk's artifact is a placeholder with success=false;
\* an artifact has success=true only if the capability produced its audio.
C2_CapabilityFailureMarked ==
    \A i \in Items :
        (batch = "generate" /\ tpc[i] = "done") =>
            /\ CapabilityFailed(i) => ~results[i].success
            /\ results[i].success => (~CapabilityFailed(i) /\ results[i].audio = "real")

\* C3: the number of external calls in flight never exceeds the batch's
\* gate: MAX_CONCURRENT_MUSIC_GENERATION for generation,
\* MAX_CONCURRENT_EMOTION_ANALYSIS for phase detection.
C3_GateBound ==
    /\ batch = "generate" => Cardinality(InFlight) <= MAX_CONCURRENT_MUSIC_GENERATION
    /\ batch \in {"analyze_node", "analyze_batch"} =>
            Cardinality(InFlight) <= MAX_CONCURRENT_EMOTION_ANALYSIS
    /\ batch = "analyze_all" =>
            Cardinality(InFlight) <= ASYNC_MAX_CONCURRENT_EMOTION_ANALYSIS
    /\ Cardinality(Holding) + semaphore = Limit(batch)

\* The gate is full, calls are in flight and another item waits behind it.
C3_Witness ==
    /\ Cardinality(InFlight) = Limit(batch)
    /\ \E i \in Items : tpc[i] = "waiting"
    /\ completed # <<>>

\* Chunk j was dispatched: its task entered the gate and, unless its own
\* prompt failed first, its call to the generation capability was started.
Dispatched(j) ==
    /\ tpc[j] # "waiting"
    /\ outcome[j] # "prompt_error" => (j \in called \/ tpc[j] = "entered")

GenChunkFailed(i) ==
    /\ batch = "generate"
    /\ i \in Items
    /\ tpc[i] \in {"exit", "done"}
    /\ ~results[i].success

BatchFinished ==
    /\ bpc = "returned"
    /\ semaphore = Limit(batch)
    /\ \A j \in Items : tpc[j] = "done" /\ Dispatched(j)

\* C4: in the generation batch the failure of chunk i does not abort the
\* batch: the permit is released when a task leaves the gate, on success
\* and on failure alike, every other chunk is eventually dispatched, and
\* the batch returns once every chunk's call has finished.
C4_FailureDoesNotAbort ==
    /\ [][\A i \in Items :
            (tpc[i] = "exit" /\ tpc'[i] = "done") => semaphore' = semaphore + 1]_vars
    /\ \A i \in 1..MaxItems : GenChunkFailed(i) ~> BatchFinished

\* A generation batch returned although an earlier chunk failed, and a later
\* chunk was still sent to the capability.
C4_Witness ==
    /\ GenerationReturned
    /\ \E i, j \in Items :
          /\ i < j
          /\ ~results[i].success
          /\ j \in called
    /\ semaphore = Limit(batch)

\* C5: the list a batch returns is ordered by input index, whatever the
\* order in which the concurrent calls completed.
C5_OrderedByInput ==
    bpc = "returned" =>
        \A a, b \in 1..Len(returned) :
            a < b => returned[a].item < returned[b].item

\* A batch returned after its calls completed out of input order.
C5_Witness ==
    /\ bpc = "returned"
    /\ Len(returned) >= 2
    /\ \E a, b \in 1..Len(completed) : a < b /\ completed[a] > completed[b]

DetectionReturned == batch # "generate" /\ bpc = "returned"

\* C17: the phase-detection batch returns exactly one result per input
\* window, at the window's index, whatever subset of the windows fails,
\* times out or raises; never a shorter list.
C17_OneResultPerWindow ==
    DetectionReturned =>
        /\ Len(returned) = items
        /\ \A k \in 1..Len(returned) : returned[k].item = k

(***************************************************************************)
(* Properties of the persistence gate.                                     *)
(***************************************************************************)
\* C6: after one run generated and persisted a unit, every later run for the
\* same unit returns the cached result and makes no call to the audio
\* generation capability.
C6_NoRegeneration ==
    (rpc # "idle" /\ run.prior) => (run.calls = 0 /\ rpc # "save")

\* C7: when save_chapter_chunks returns, the chunk rows stored for the unit
\* are exactly the rows of `chunks`: no earlier row remains, no row is
\* duplicated, so saving the same list again leaves the same rows.
C7_SaveReplacesRows ==
    spc = "returned" => db_chunks[run.unit] = run.chunks

\* A save returned for a unit that already had chunk rows.
C7_Witness ==
    /\ spc = "returned"
    /\ sv.before # <<>>
    /\ sv.before # run.chunks
    /\ Len(run.chunks) >= 2

\* C8: if save_chapter_chunks fails after deleting the old chunk rows, the
\* delete is rolled back: the rows stored before the call are all still
\* present, none of the new rows is visible, and the failure is raised.
C8_FailedSaveRollsBack ==
    /\ spc \in {"book", "chapter", "delete", "insert", "raised"} =>
            db_chunks[run.unit] = sv.before
    /\ sv.failed_at # "none" => spc = "raised"

\* A save failed while inserting, after the delete and a first insert, for a
\* unit that had chunk rows.
C8_Witness ==
    /\ spc = "raised"
    /\ sv.failed_at = "insert"
    /\ sv.inserted >= 1
    /\ sv.before # <<>>

(***************************************************************************)
(* Claims about chunk assembly.                                            *)
(***************************************************************************)
Assembled == apc \in {"next", "done"} /\ windows_done > 0

\* The chunks, in order, account for the window from its first to its last
\* character: the first is cut from offset 0, each next one from where the
\* previous one ended, and the last one ends at the end of the window.
Reconstructs(w, chunks) ==
    /\ chunks # <<>>
    /\ chunks[1].from = 0
    /\ chunks[Len(chunks)].to = w.total
    /\ \A k \in 1..(Len(chunks) - 1) : chunks[k + 1].from = chunks[k].to

\* C9: for every non-empty window and every ordered phase list, the texts
\* of the chunks the assembler emits, concatenated in order, give back the
\* whole window text: no span of it is missing.
C9_WindowReconstructed == Assembled => Reconstructs(window, window_chunks)

C12_NeutralWholeWindow ==
    (Assembled /\ ValidPhases(window) = <<>>) =>
        /\ Len(window_chunks) = 1
        /\ window_chunks[1].from = 0
        /\ window_chunks[1].to = window.total
        /\ window_chunks[1].emotion = Neutral

(***************************************************************************)
(* Claims about the pure steps.                                            *)
(***************************************************************************)
Reconciled == fn = "calculate_positions" /\ fpc = "returned"

NullsLast(ps) ==
    \A i, j \in 1..Len(ps) : (i < j /\ ~ps[i].found) => ~ps[j].found

\* Phases with equal keys keep the order they had in the input (id is the
\* input index).
StableOrder(ps) ==
    \A i, j \in 1..Len(ps) :
        (i < j /\ ~KeyLess(ps[i], ps[j]) /\ ~KeyLess(ps[j], ps[i]))
            => ps[i].id < ps[j].id

StrictlyIncreasing(ps) ==
    \A i, j \in 1..Len(ps) :
        (i < j /\ ps[i].found /\ ps[j].found) => ps[i].pos < ps[j].pos

NonDecreasing(ps) ==
    \A i, j \in 1..Len(ps) :
        (i < j /\ ps[i].found /\ ps[j].found) => ps[i].pos <= ps[j].pos

\* C11 as stated: in the reconciled and sorted list the null-position
\* phases come after all others, the non-null positions strictly increase,
\* and phases with equal keys keep their original relative order.
C11_SortedStrict ==
    Reconciled =>
        NullsLast(output) /\ StrictlyIncreasing(output) /\ StableOrder(output)

\* C11 amended: the null-position phases come after all others, the
\* non-null positions never decrease (two anchors can resolve to the same
\* offset), and phases with equal keys keep their original relative order.
C11_SortedStable ==
    Reconciled =>
        NullsLast(output) /\ NonDecreasing(output) /\ StableOrder(output)

\* A list with a null position ahead of a found one in the input, sorted.
C11_Witness ==
    /\ Reconciled
    /\ Len(output) = 2
    /\ output[1].found /\ ~output[2].found
    /\ output[1].id = 2

PageMapped == fn = "create_page_mapping" /\ fpc = "returned"

\* C13: for N artifacts and P chunks per page the page mapping partitions
\* the 1-based positions 1..N into ceil(N/P) consecutive ranges: page k
\* covers (k-1)*P+1 .. min(k*P, N), every page but the last has P chunks,
\* chunk_count = end_index - start_index + 1, and every chunk carries the
\* number of the page whose range contains it.
C13_PagePartition ==
    PageMapped =>
        LET n == input.n
            pp == input.per_page
            m == output.mapping
            k == (n + pp - 1) \div pp
        IN  /\ DOMAIN m = 1..k
            /\ \A pg \in 1..k :
                /\ m[pg].start_index = (pg - 1) * pp + 1
                /\ m[pg].end_index = Min(pg * pp, n)
                /\ m[pg].chunk_count = m[pg].end_index - m[pg].start_index + 1
                /\ pg < k => m[pg].chunk_count = pp
            /\ DOMAIN output.pages = 1..n
            /\ \A i \in 1..n :
                /\ output.pages[i] \in 1..k
                /\ m[output.pages[i]].start_index <= i
                /\ i <= m[output.pages[i]].end_index

\* Ten chunks at the configured four per page: pages 1-4, 5-8, 9-10.
C13_Witness ==
    /\ PageMapped
    /\ input.n = 10 /\ input.per_page = CHUNKS_PER_PAGE
    /\ DOMAIN output.mapping = 1..3
    /\ output.mapping[3].start_index = 9
    /\ output.mapping[3].chunk_count = 2

(***************************************************************************)
(* Claims about the splitter.                                              *)
(***************************************************************************)
SegmentsMode == fn = "processing_segments"

StartsIncrease(ws) ==
    \A k \in 1..(Len(ws) - 1) : ws[k + 1].start >= ws[k].start + 1

\* C14: for a text longer than the maximum size and any overlap >= 0 (also
\* an overlap of the maximum size or more) the start offsets of the windows
\* of split_text_into_processing_segments strictly increase, and the split
\* terminates with a last window that ends at len(text).
C14_SplitAdvancesAndEnds ==
    /\ [](SegmentsMode => StartsIncrease(output.windows)
                          /\ (fpc = "loop" =>
                                 \A k \in 1..Len(output.windows) :
                                     output.windows[k].start < output.pos))
    /\ (SegmentsMode /\ input.len > input.max_size) ~>
            (/\ fpc = "returned"
             /\ output.windows # <<>>
             /\ output.windows[Len(output.windows)].end = input.len)

\* A split with an overlap of at least the maximum size that took several
\* windows to reach the end of the text.
C14_Witness ==
    /\ SegmentsMode /\ fpc = "returned"
    /\ input.overlap >= input.max_size
    /\ input.len > input.max_size
    /\ Len(output.windows) >= 3
    /\ output.windows[Len(output.windows)].end = input.len

\* C15: for a text no longer than the maximum size both splitter modes
\* return exactly one window, the whole text, at offset 0.
C15_ShortTextOneWindow ==
    (fn \in SplitModes /\ fpc = "returned" /\ input.len <= input.max_size) =>
        output.windows = <<WindowOf(0, input.len)>>

C15_Witness ==
    /\ fn = "sliding_window" /\ fpc = "returned"
    /\ input.len = input.max_size /\ input.overlap > 0
    /\ output.windows = <<WindowOf(0, input.len)>>

(***************************************************************************)
(* Claims about the phase detector adapter.                                *)
(***************************************************************************)
AdapterReturned == fn \in Adapters /\ fpc = "returned"

AllAttemptsFailed ==
    /\ output.calls = RETRY_ATTEMPTS
    /\ \A k \in 1..RETRY_ATTEMPTS : input.outcomes[k] = "raises"

\* C16: the adapter never raises to its caller, whatever the detector does
\* on each attempt, and after the failure of every attempt it returns an
\* empty phase list as a normal result, not an error result.
C16_AdapterNeverFails ==
    AdapterReturned =>
        /\ output.result.kind # "raised"
        /\ AllAttemptsFailed => output.result = AdapterResult("ok", "empty")

(***************************************************************************)
(* Claims about one run of run_workflow.                                   *)
(***************************************************************************)
RunReturned == wpc = "returned" /\ wr.nwin > 0

ExternalCalls ==
    wr.calls.detector + wr.calls.prompt + wr.calls.generator + wr.calls.database

\* C18: the output is never silently truncated: whenever a window, a chunk
\* or an artifact was dropped on the way, the result of run_workflow has a
\* non-empty errors list.
C18_NoSilentTruncation ==
    (RunReturned /\ wr.dropped) => wr.errors # <<>>

\* C19: for an empty or whitespace-only text the failure is surfaced before
\* any external capability is invoked: the count of external calls stays
\* zero and the result carries an error.
C19_EmptyTextNoExternalCall ==
    (wr.text \in {"empty", "blank"} /\ wr.nwin > 0) =>
        /\ ExternalCalls = 0
        /\ RunReturned => wr.errors # <<>>

SavedChunkCounts ==
    [pg \in 1..Len(wr.mapping) |->
        IF pg \in wr.save_fails THEN 0 ELSE wr.mapping[pg].chunk_count]

\* C20: a page whose persist step fails appears in the pages of the result
\* with an error, is not counted in successful_pages and adds 0 to
\* total_duration, and every other page is still persisted.
C20_FailedPageReported ==
    RunReturned =>
        /\ \A pg \in DOMAIN wr.mapping :
              /\ pg \in DOMAIN wr.page_results
              /\ wr.page_results[pg].page = pg
              /\ wr.page_results[pg].error <=> pg \in wr.save_fails
              /\ pg \in wr.save_fails => wr.page_results[pg].duration = 0
              /\ pg \notin wr.save_fails => pg \in wr.saved
        /\ wr.successful_pages = Len(wr.mapping) - Cardinality(wr.save_fails)
        /\ wr.total_duration = GEN_DURATION * SumSeq(SavedChunkCounts)

C20_Witness ==
    /\ RunReturned
    /\ wr.save_fails = {1}
    /\ 2 \in wr.saved
    /\ wr.successful_pages = 1
    /\ wr.total_duration > 0

(***************************************************************************)
(* Claims about the significance filter.                                   *)
(***************************************************************************)
Filtered == fn = "filter_significant_phases" /\ fpc = "returned"

\* out is the sub-list of phases with significance >= threshold, in the
\* order of phases.
ExactlySignificant(phases, threshold, out) ==
    /\ \A k \in 1..Len(out) : out[k] = phases[out[k].id]
    /\ \A k \in 1..(Len(out) - 1) : out[k].id < out[k + 1].id
    /\ {out[k].id : k \in 1..Len(out)} =
            {k \in 1..Len(phases) : phases[k].significance >= threshold}

\* C21: the significance filter returns exactly the phases with
\* significance >= threshold, in their input order, leaves its input list
\* as it was, and filtering its result again with the same threshold gives
\* the same list.
C21_FilterExact ==
    [][(fn = "filter_significant_phases" /\ fpc = "called") =>
            /\ input' = input
            /\ ExactlySignificant(input.phases, input.threshold, output')
            /\ filter_significant_phases(output', input.threshold) = output']_vars

C21_Witness ==
    /\ Filtered
    /\ Len(input.phases) = 2
    /\ input.phases[1].significance < input.threshold
    /\ input.phases[2].significance = input.threshold
    /\ output = <<input.phases[2]>>

(***************************************************************************)
(* Claims about the positions the reconcilers give.                        *)
(***************************************************************************)
Reconcilers == {"calculate_positions", "find_turning_points_in_text"}

ReconcilerReturned == fn \in Reconcilers /\ fpc = "returned"

ExactIndex(k) == Find(input.segment, input.anchors[k].head \o input.anchors[k].tail)

PrefixIndex(k) == Find(input.segment, input.anchors[k].head)

HasAnchor(k) == input.anchors[k].head # <<>>

\* The phase k of the input is in the output with position pos.
PositionedAt(k, pos) ==
    \E j \in 1..Len(output) :
        output[j].id = k /\ output[j].found /\ output[j].pos = pos

\* C22: a phase whose anchor occurs in the window gets the position
\* start_offset + index of the first occurrence; when only the first 30
\* characters of the anchor occur, start_offset + index of the first
\* occurrence of that prefix.
C22_PositionIsOffsetPlusIndex ==
    ReconcilerReturned =>
        \A k \in 1..Len(input.anchors) :
            /\ (HasAnchor(k) /\ ExactIndex(k) # -1) =>
                    \A j \in 1..Len(output) : output[j].id = k =>
                        (output[j].found /\ output[j].pos = input.start_offset + ExactIndex(k))
            /\ (HasAnchor(k) /\ ExactIndex(k) = -1 /\ PrefixIndex(k) # -1) =>
                    \A j \in 1..Len(output) : output[j].id = k =>
                        (output[j].found /\ output[j].pos = input.start_offset + PrefixIndex(k))

\* C23: a phase of which neither the anchor nor its first 30 characters
\* occur in the window is in the output with a null position, never with a
\* number.
C23_UnfoundIsNull ==
    ReconcilerReturned =>
        \A k \in 1..Len(input.anchors) :
            (HasAnchor(k) /\ ExactIndex(k) = -1 /\ PrefixIndex(k) = -1) =>
                /\ \E j \in 1..Len(output) : output[j].id = k
                /\ \A j \in 1..Len(output) : output[j].id = k => ~output[j].found

(***************************************************************************)
(* Claims about the assembler pass.                                        *)
(***************************************************************************)
CutLoop == fn \in CutFns /\ fpc = "loop"

CutReturned == fn \in CutFns /\ fpc = "returned"

CutValid == ValidPhases(input)

\* The phase the loop is at, and its candidate span, trimmed.
CutPhase == CutValid[output.k]

CandidateLen == StripLen(input, output.last_pos, CutPhase.pos)

InLoopBody == CutLoop /\ output.k <= Len(CutValid)

AtTrailing == CutLoop /\ output.k > Len(CutValid)

StateBefore(k) ==
    LET start == [last_pos |-> 0, chunks |-> <<>>]
        before == SubSeq(CutValid, 1, k - 1)
    IN  IF fn = "create_final_chunks" THEN LgLoop(input, before, 1, start)
        ELSE SpLoop(input, before, 1, start)

\* The text from offset a up to b is inside one emitted chunk.
Emitted(a, b) ==
    \E j \in 1..Len(output.chunks) :
        output.chunks[j].from <= a /\ b <= output.chunks[j].to

\* C25: a candidate span longer than MAX_CHUNK_SIZE is not discarded:
\* after the pass its text is in the emitted chunks.
C25_OversizedKept ==
    CutReturned =>
        \A k \in 1..Len(CutValid) :
            (/\ CutValid[k].pos > StateBefore(k).last_pos
             /\ StripLen(input, StateBefore(k).last_pos, CutValid[k].pos) > MAX_CHUNK_SIZE) =>
                Emitted(StateBefore(k).last_pos, CutValid[k].pos)

\* C26: the text left after the loop is never dropped: it is the last
\* chunk, tagged with emotions_after of the last phase, when it has at
\* least MIN_CHUNK_SIZE characters, and else it is added to the previous
\* chunk, also when there is none.
C26_TrailingNeverDropped ==
    (CutReturned /\ CutValid # <<>> /\ output.last_pos < input.total) =>
        /\ output.chunks # <<>>
        /\ output.chunks[Len(output.chunks)].to = input.total
        /\ StripLen(input, output.last_pos, input.total) >= MIN_CHUNK_SIZE =>
                /\ output.chunks[Len(output.chunks)].from = output.last_pos
                /\ output.chunks[Len(output.chunks)].emotion = After(CutValid[Len(CutValid)])

StrictCuts(chunks) ==
    /\ \A j \in 1..Len(chunks) : chunks[j].from < chunks[j].to
    /\ \A j \in 1..(Len(chunks) - 1) : chunks[j].to <= chunks[j + 1].from

\* C27: a phase whose position is <= last_pos is skipped without a chunk
\* and without a change of last_pos; last_pos never decreases and the
\* positions at which chunks are cut are strictly increasing, whatever the
\* order of the phase list.
C27_OutOfOrderSkipped ==
    [][CutLoop =>
            /\ (InLoopBody /\ CutPhase.pos <= output.last_pos) =>
                    (output'.chunks = output.chunks /\ output'.last_pos = output.last_pos)
            /\ output'.last_pos >= output.last_pos
            /\ StrictCuts(output'.chunks)
            /\ \A j \in 1..Len(output'.chunks) :
                    fpc' = "loop" => output'.chunks[j].to <= output'.last_pos]_vars

\* A list out of order went through the pass: a chunk was cut at a phase
\* and a later phase of the list lies before it.
C27_Witness ==
    /\ CutReturned
    /\ \E k \in 1..Len(CutValid), j \in 1..Len(output.chunks) :
          /\ k > 1
          /\ CutValid[k].pos < CutValid[k - 1].pos
          /\ output.chunks[j].to = CutValid[k - 1].pos

\* An attempt on which the capability failed.
FailedAttempt(k) == input.outcomes[k] \in {"raises", "default"}

\* C28: the adapter calls the phase-detection capability at most 3 times
\* for a window, calls it again after every failed attempt while attempts
\* remain, and stops at the first successful attempt.
C28_RetryUntilSuccess ==
    (AdapterReturned /\ output.calls > 0) =>
        /\ output.calls <= RETRY_ATTEMPTS
        /\ \A k \in 1..(output.calls - 1) : FailedAttempt(k)
        /\ FailedAttempt(output.calls) => output.calls = RETRY_ATTEMPTS

(***************************************************************************)
(* Claims about calls that do not return.                                  *)
(***************************************************************************)
DetectionBatch == batch \in {"analyze_node", "analyze_batch", "analyze_all"}

\* C29: every phase-detection call is bounded by a hard timeout: a call
\* that has been issued ends, at the latest when the timeout expires, with
\* a failure result for its window and no exception in the batch, its
\* permit is released, and the batch returns.
C29_DetectionCallBounded ==
    \A i \in 1..MaxItems :
        (DetectionBatch /\ i \in Items /\ tpc[i] = "calling") ~>
            (i \in Items =>
                /\ tpc[i] = "done"
                /\ ~results[i].raised
                /\ outcome[i] # "ok" => ~results[i].success)

\* C30: a generation call that never returns does not block the gate: the
\* calls for all other chunks are still issued and the batch returns.
C30_StuckGenerationDoesNotBlock ==
    (batch = "generate") ~>
        (/\ bpc = "returned"
         /\ \A i \in Items : outcome[i] # "stuck" => i \in called)

(***************************************************************************)
(* Claims about the order of the stages of a run.                          *)
(***************************************************************************)
StageDone(name) == \E k \in 1..Len(wr.stages) : wr.stages[k] = name

\* C31: the stages run in the order splitting, phase detection, chunk
\* assembly, page mapping, generation, persistence: the page mapping is
\* complete before the first generation call is issued, and no page is
\* persisted before the generation batch has returned.
C31_StageOrder ==
    /\ RunReturned =>
            wr.stages = <<"split_text", "analyze_emotions", "create_final_chunks",
                          "create_page_mapping", "generate_music", "save_to_database">>
    /\ wr.calls.prompt + wr.calls.generator > 0 => StageDone("create_page_mapping")
    /\ wr.calls.database > 0 => StageDone("generate_music")

\* C39: every run goes through each of the six stages exactly once and
\* returns a result: an exception raised inside a stage is appended to the
\* errors list and the later stages still run, so that no exception leaves
\* run_workflow.
C39_EveryStageRunsAndReturns ==
    /\ wpc # "raised"
    /\ RunReturned =>
            /\ Len(wr.stages) = 6
            /\ \A j, k \in 1..Len(wr.stages) : wr.stages[j] = wr.stages[k] => j = k

(***************************************************************************)
(* Claims about the windows of the two splitter modes.                     *)
(***************************************************************************)
WindowLen(w) == w.end - w.start

\* C32: in both splitter modes every window text handed to the phase
\* detector is at most max_size characters long.
C32_WindowWithinMaxSize ==
    fn \in SplitModes =>
        \A k \in 1..Len(output.windows) : WindowLen(output.windows[k]) <= input.max_size

SlidingReturned == fn = "sliding_window" /\ fpc = "returned"

\* The logical range of page k (1-based): [(k - 1) * max_size,
\* min(k * max_size, len)).
LogicalStart(k) == (k - 1) * input.max_size
LogicalEnd(k) == Min(k * input.max_size, input.len)

\* C33: for len(text) > max_size >= 1 and overlap >= 0 the sliding-window
\* split returns ceil(len / max_size) pages; page k starts at its logical
\* start, the logical ranges are adjacent and cover the text, a non-final
\* page carries its logical range plus at most `overlap` lookahead
\* characters, and the final page carries no lookahead, so that the pages
\* cut back to their logical ranges concatenate to the text.
C33_SlidingPagesCoverText ==
    (SlidingReturned /\ input.len > input.max_size) =>
        LET ws == output.windows
            n  == Len(ws)
        IN  /\ n = (input.len + input.max_size - 1) \div input.max_size
            /\ \A k \in 1..n :
                /\ ws[k].start = LogicalStart(k)
                /\ LogicalStart(k) < LogicalEnd(k)
                /\ k < n => /\ ws[k].end >= LogicalEnd(k)
                            /\ ws[k].end - LogicalEnd(k) <= input.overlap
                            /\ LogicalEnd(k) = LogicalStart(k + 1)
                /\ k = n => /\ ws[k].end = LogicalEnd(k)
                            /\ LogicalEnd(k) = input.len
            /\ LogicalStart(1) = 0

\* A split into three pages whose first page carries a full lookahead that
\* reaches into the third page's range.
C33_Witness ==
    /\ SlidingReturned
    /\ Len(output.windows) = 3
    /\ input.overlap > input.max_size
    /\ output.windows[1].end = LogicalEnd(1) + input.overlap

\* C35: the windows of split_text_into_processing_segments cover the text
\* without gaps: the first window starts at offset 0, every later window
\* starts at or before the end of the previous one, every window is
\* non-empty, and the offset yielded with a window is the index at which
\* its text begins (the window's start).
C35_SegmentsCoverWithoutGaps ==
    SegmentsMode =>
        LET ws == output.windows
        IN  /\ ws # <<>> => ws[1].start = 0
            /\ \A k \in 1..Len(ws) :
                /\ WindowLen(ws[k]) > 0
                /\ k > 1 => ws[k].start <= ws[k - 1].end
            /\ (fpc = "loop" /\ ws # <<>>) => output.pos <= ws[Len(ws)].end

(***************************************************************************)
(* Claims about the chunks of the windows of one document.                 *)
(***************************************************************************)
Disjoint(a, b) == a.to <= b.from \/ b.to <= a.from

\* C34: across all windows of one document no part of the text is emitted
\* twice in the final chunk list: the ranges of the document the chunks
\* were cut from are pairwise disjoint, in particular the lookahead of a
\* sliding-window page is in the chunks of at most one window.
C34_NoTextEmittedTwice ==
    \A j, k \in 1..Len(emitted) : j < k => Disjoint(emitted[j], emitted[k])

\* C38: the refactored assembler (split_text_by_phases, merge_small_chunks,
\* create_text_chunks) and the original one (_create_final_chunks_node)
\* produce the same ordered list of chunk texts and emotion tags for every
\* window text and every ordered phase list.
C38_AssemblersAgree ==
    window # NoWindow => LgWindowChunks(window) = RfWindowChunks(window)

(***************************************************************************)
(* Claims about what a save leaves in the store.                           *)
(***************************************************************************)
\* C37: the chapter row and the chunk rows of a page change together or not
\* at all: whenever save_chapter_chunks fails, the total_duration stored
\* for (book_id, page) is what it was before the call, like the chunk rows.
C37_ChapterAndChunksTogether ==
    spc = "raised" =>
        /\ db_chunks[run.unit] = sv.before
        /\ db_duration[run.unit] = sv.duration

(***************************************************************************)
(* Claims about the rows a run saves.                                      *)
(***************************************************************************)
\* C36: for every persisted page the index values of the chunk rows saved
\* for it lie inside the page's [start_index, end_index] range of the page
\* mapping, also when generation failed for some chunks of the batch.
C36_SavedIndexInsidePageRange ==
    \A pg \in wr.saved :
        \A k \in 1..Len(wr.rows[pg]) :
            /\ wr.mapping[pg].start_index <= wr.rows[pg][k]
            /\ wr.rows[pg][k] <= wr.mapping[pg].end_index

====
